---- MODULE Spec2Model ----
(***************************************************************************)
(* Gmail Screener: the batch pipeline of main.py and the transformations   *)
(* of email_handler.py (query compilation, body normalisation, amount      *)
(* extraction), as state machines.                                         *)
(*                                                                         *)
(* Text is a sequence of one-character strings (a markup tag of a message   *)
(* body is one token of it), except in compiled search queries, which are  *)
(* TLA+ strings built by concatenation.  A Python dict whose key order     *)
(* matters to a statement is a sequence of entries with distinct keys, in  *)
(* insertion order.                                                        *)
(***************************************************************************)
EXTENDS Integers, Sequences, FiniteSets, TLC

VARIABLES
    pc,              \* position of main(), or of the function under study
    criteria,        \* main.py:78   the parsed criteria file
    search_query,    \* main.py:86
    calls,           \* remote calls issued so far, in order
    messages,        \* main.py:88   search result (sequence of ids)
    idx,             \* main.py:97   loop position in messages
    emails,          \* main.py:95
    message_ids,     \* main.py:96
    pdf_filename,    \* main.py:111
    sections,        \* the story built by create_pdf_from_emails: one entry per email
    sent_message,    \* main.py:114
    marked,          \* ids sent in the batchModify body
    outcome,         \* how the process ended: [kind, stage, status]
    env,             \* what the remote services answered in this run
    payload,         \* input of the body walk of get_email_content
    body_result,     \* its result
    text,            \* input of the amount scan of create_pdf_from_emails
    dollar_amounts   \* email_handler.py:210

vars == <<pc, criteria, search_query, calls, messages, idx, emails, message_ids,
          pdf_filename, sections, sent_message, marked, outcome, env,
          payload, body_result, text, dollar_amounts>>

pipeline_vars == <<calls, messages, idx, emails, message_ids, pdf_filename,
                   sections, sent_message, marked, outcome, env>>

(***************************************************************************)
(* Bounds                                                                  *)
(***************************************************************************)
MaxTerms == 2        \* longest include/exclude term list
MaxPieces == 4       \* pieces concatenated into a text for the amount scan
MaxParts == 2        \* parts of a multipart payload
MaxNested == 2       \* parts inside a nested multipart part
MaxMessages == 3     \* messages a search returns

(***************************************************************************)
(* Generic helpers                                                         *)
(***************************************************************************)
RECURSIVE SeqsUpTo(_, _)
SeqsUpTo(S, n) ==
    IF n = 0 THEN {<<>>}
    ELSE LET shorter == SeqsUpTo(S, n - 1)
         IN  shorter \cup {Append(s, x) : s \in {t \in shorter : Len(t) = n - 1}, x \in S}

RECURSIVE Flatten(_)
Flatten(ss) == IF ss = <<>> THEN <<>> ELSE Head(ss) \o Flatten(Tail(ss))

Reorderings(s) ==
    {[i \in 1..Len(s) |-> s[p[i]]] : p \in Permutations(1..Len(s))}

\* str.join on TLA+ strings
RECURSIVE Join(_, _)
Join(parts, sep) ==
    IF parts = <<>> THEN ""
    ELSE IF Len(parts) = 1 THEN parts[1]
    ELSE parts[1] \o sep \o Join(Tail(parts), sep)

\* `key in d` and d[key] for a dict kept as a sequence of entries
DictHas(d, k) == \E i \in 1..Len(d) : d[i].key = k
DictGet(d, k) == d[CHOOSE i \in 1..Len(d) : d[i].key = k]

(***************************************************************************)
(* Criteria values (criteria.json after json.load)                         *)
(***************************************************************************)
AfterTokens == {"", "2024/01/01"}
BeforeTokens == {"", "2024/02/01"}
TermPool == {"invoice", "receipt"}
Operators == {"AND", "OR"}

NoGroup == [has_terms |-> FALSE, terms |-> <<>>, has_op |-> FALSE, op |-> ""]

Groups(n) ==
    {[has_terms |-> ht, terms |-> ts, has_op |-> ho, op |-> o] :
        ht \in BOOLEAN, ts \in SeqsUpTo(TermPool, n),
        ho \in BOOLEAN, o \in Operators \cup {""}}

WellFormedGroup(g) ==
    /\ (~g.has_terms => g.terms = <<>>)
    /\ (g.has_op <=> g.op # "")

DateRanges ==
    LET afters == {<<[key |-> "after", val |-> a]>> : a \in AfterTokens} \cup {<<>>}
        befores == {<<[key |-> "before", val |-> b]>> : b \in BeforeTokens} \cup {<<>>}
    IN  UNION {Reorderings(a \o b) : a \in afters, b \in befores}

DateEntries ==
    {<<[key |-> "date_range", dr |-> d, grp |-> NoGroup]>> : d \in DateRanges} \cup {<<>>}

GroupEntries(k, n) ==
    {<<[key |-> k, dr |-> <<>>, grp |-> g]>> : g \in {h \in Groups(n) : WellFormedGroup(h)}}
        \cup {<<>>}

(***************************************************************************)
(* main.py: build_search_query                                             *)
(***************************************************************************)
date_parts(c) ==
    IF DictHas(c, "date_range")
    THEN LET dr == DictGet(c, "date_range").dr
         IN  (IF DictHas(dr, "after")
              THEN <<"after:" \o DictGet(dr, "after").val>> ELSE <<>>)
             \o
             (IF DictHas(dr, "before")
              THEN <<"before:" \o DictGet(dr, "before").val>> ELSE <<>>)
    ELSE <<>>

\* criteria[key].get('logical_operator', default)
get_operator(g, default) == IF g.has_op THEN g.op ELSE default

group_part(c, key, default, prefix) ==
    IF DictHas(c, key) /\ DictGet(c, key).grp.has_terms
                       /\ DictGet(c, key).grp.terms # <<>>
    THEN LET g == DictGet(c, key).grp
             operator == " " \o get_operator(g, default) \o " "
         IN  <<prefix \o "(" \o Join(g.terms, operator) \o ")">>
    ELSE <<>>

\* a build_search_query that emits the fragments in the order of the input's keys
RECURSIVE parts_in_input_order(_, _)
parts_in_input_order(c, i) ==
    IF i > Len(c) THEN <<>>
    ELSE (CASE c[i].key = "date_range" -> date_parts(c)
            [] c[i].key = "include" -> group_part(c, "include", "AND", "")
            [] OTHER -> group_part(c, "exclude", "OR", "-"))
         \o parts_in_input_order(c, i + 1)

build_search_query_input_order(c) == Join(parts_in_input_order(c, 1), " ")

build_search_query(c) ==
    Join(date_parts(c)
            \o group_part(c, "include", "AND", "")
            \o group_part(c, "exclude", "OR", "-"),
         " ")

(***************************************************************************)
(* Message payloads (the `payload` of a messages.get response, format=full)*)
(* A part: its mimeType; body is "absent" (no 'body' key), "nodata" (a body*)
(* without 'data') or "data"; enc tells whether the data is valid          *)
(* url-safe base64 of valid UTF-8; data is the text it encodes; parts are  *)
(* the sub-parts.  Markup tags are single tokens of the text.              *)
(***************************************************************************)
TagTokens == {"<b>", "</b>", "<p>"}

PlainText == <<"a">>
HtmlText == <<"<b>", "h", "</b>">>

Leaf(mt, b, e, d) == [mimeType |-> mt, body |-> b, enc |-> e, data |-> d, parts |-> <<>>]

TextLeaves ==
    {Leaf("text/plain", "data", "ok", PlainText),
     Leaf("text/html", "data", "ok", HtmlText),
     Leaf("text/plain", "nodata", "ok", <<>>),
     Leaf("text/html", "nodata", "ok", <<>>),
     Leaf("image/png", "nodata", "ok", <<>>)}

BrokenLeaves ==
    {Leaf("text/plain", "data", "bad_base64", <<>>),
     Leaf("text/html", "data", "bad_utf8", <<>>),
     Leaf("text/plain", "absent", "ok", <<>>)}

Leaves == TextLeaves \cup BrokenLeaves

Multipart(mt, ps) == [mimeType |-> mt, body |-> "nodata", enc |-> "ok", data |-> <<>>, parts |-> ps]

NestedParts(n) ==
    {Multipart("multipart/alternative", ps) : ps \in SeqsUpTo(Leaves, n) \ {<<>>}}

Payloads(n, m) ==
    {l \in Leaves : l.mimeType # "image/png"}
        \cup {Multipart("multipart/mixed", ps) :
                 ps \in SeqsUpTo(Leaves \cup NestedParts(m), n) \ {<<>>}}

(***************************************************************************)
(* email_handler.py: strip_html_tags, sanitize_text                        *)
(***************************************************************************)
\* HTMLStripper keeps what handle_data receives: everything but the tags
strip_html_tags(html_text) == SelectSeq(html_text, LAMBDA tok : tok \notin TagTokens)

\* html.escape (quote=True) of one character
escape_char(ch) ==
    CASE ch = "&" -> <<"&", "a", "m", "p", ";">>
      [] ch = "<" -> <<"&", "l", "t", ";">>
      [] ch = ">" -> <<"&", "g", "t", ";">>
      [] ch = "\"" -> <<"&", "q", "u", "o", "t", ";">>
      [] ch = "'" -> <<"&", "#", "x", "2", "7", ";">>
      [] OTHER -> <<ch>>

RECURSIVE html_escape(_)
html_escape(t) == IF t = <<>> THEN <<>> ELSE escape_char(Head(t)) \o html_escape(Tail(t))

sanitize_text(t) == IF t = <<>> THEN <<>> ELSE html_escape(strip_html_tags(t))

(***************************************************************************)
(* email_handler.py: get_email_content                                     *)
(***************************************************************************)
Raised == [raised |-> TRUE, text |-> <<>>]
Text(t) == [raised |-> FALSE, text |-> t]

\* base64.urlsafe_b64decode(part['body']['data']).decode('utf-8')
\* binascii.Error on malformed base64, UnicodeDecodeError on invalid UTF-8
decode_data(part) == IF part.enc = "ok" THEN Text(part.data) ELSE Raised

\* one pass of the loop body over payload['parts']; part['body'] is a KeyError
\* when the key is missing
part_text(part) ==
    IF part.mimeType = "text/plain"
    THEN IF part.body = "absent" THEN Raised
         ELSE IF part.body = "data" THEN decode_data(part) ELSE Text(<<>>)
    ELSE IF part.mimeType = "text/html"
    THEN IF part.body = "absent" THEN Raised
         ELSE IF part.body = "data"
              THEN LET d == decode_data(part)
                   IN  IF d.raised THEN Raised ELSE Text(strip_html_tags(d.text))
              ELSE Text(<<>>)
    ELSE Text(<<>>)

\* the for loop over parts: full_body += ...; the first exception ends it
RECURSIVE parts_text(_)
parts_text(parts) ==
    IF parts = <<>> THEN Text(<<>>)
    ELSE LET first == part_text(Head(parts))
         IN  IF first.raised THEN Raised
             ELSE LET rest == parts_text(Tail(parts))
                  IN  IF rest.raised THEN Raised ELSE Text(first.text \o rest.text)

\* email_handler.py:134-148: the body of a fetched message
full_body_of(pl) ==
    IF pl.parts # <<>> THEN parts_text(pl.parts)
    ELSE IF pl.body = "data"
         THEN LET d == decode_data(pl)
              IN  IF d.raised THEN Raised ELSE Text(strip_html_tags(d.text))
         ELSE Text(<<>>)

\* A messages.get answer: an HttpError, or a message with its payload
HttpError == [http_error |-> TRUE, payload |-> Leaf("", "nodata", "ok", <<>>)]
Message(pl) == [http_error |-> FALSE, payload |-> pl]

\* get_email_content: "none" is the None of the HttpError handler, "raise" an
\* exception that is no HttpError and leaves the function
get_email_content(resp, message_id) ==
    IF resp.http_error THEN [kind |-> "none", id |-> message_id, full_body |-> <<>>]
    ELSE LET b == full_body_of(resp.payload)
         IN  IF b.raised THEN [kind |-> "raise", id |-> message_id, full_body |-> <<>>]
             ELSE [kind |-> "ok", id |-> message_id, full_body |-> b.text]

(***************************************************************************)
(* email_handler.py:210: re.findall(r'\$\d+(?:,\d{3})*(?:\.\d{2})?', body) *)
(* Greedy matching, left to right; every quantified piece after `\$\d` is  *)
(* optional, so the first attempt at a position succeeds or there is none. *)
(***************************************************************************)
Digits == {"0", "1", "2", "3", "4", "5", "6", "7", "8", "9"}

CharAt(t, i) == IF i \in 1..Len(t) THEN t[i] ELSE ""
IsDigitAt(t, i) == CharAt(t, i) \in Digits

\* \d* from i: the index after the run of digits
RECURSIVE digits_end(_, _)
digits_end(t, i) == IF IsDigitAt(t, i) THEN digits_end(t, i + 1) ELSE i

\* (?:,\d{3})* from i
RECURSIVE groups_end(_, _)
groups_end(t, i) ==
    IF CharAt(t, i) = "," /\ IsDigitAt(t, i + 1) /\ IsDigitAt(t, i + 2) /\ IsDigitAt(t, i + 3)
    THEN groups_end(t, i + 4)
    ELSE i

\* (?:\.\d{2})? from i
fraction_end(t, i) ==
    IF CharAt(t, i) = "." /\ IsDigitAt(t, i + 1) /\ IsDigitAt(t, i + 2) THEN i + 3 ELSE i

\* a pattern without the thousands groups: \$\d+(?:\.\d{2})?
amount_match_end_no_groups(t, i) ==
    IF CharAt(t, i) = "$" /\ IsDigitAt(t, i + 1)
    THEN fraction_end(t, digits_end(t, i + 1))
    ELSE 0

\* the match of the whole pattern at i: the index after it, 0 when there is none
amount_match_end(t, i) ==
    IF CharAt(t, i) = "$" /\ IsDigitAt(t, i + 1)
    THEN fraction_end(t, groups_end(t, digits_end(t, i + 1)))
    ELSE 0

\* re.findall: scan from i, resume after each match
RECURSIVE findall_amounts(_, _)
findall_amounts(t, i) ==
    IF i > Len(t) THEN <<>>
    ELSE LET e == amount_match_end(t, i)
         IN  IF e = 0 THEN findall_amounts(t, i + 1)
             ELSE <<SubSeq(t, i, e - 1)>> \o findall_amounts(t, e)

\* Texts for the scan: concatenations of at most n pieces
Pieces ==
    {<<"$">>, <<"1">>, <<"2", "3">>, <<",", "4", "5", "6">>, <<".", "7", "8">>,
     <<",">>, <<".">>, <<"x">>}

Texts(n) == {Flatten(ps) : ps \in SeqsUpTo(Pieces, n)}

(***************************************************************************)
(* email_handler.py: get_gmail_service, search_emails,                     *)
(* create_pdf_from_emails, send_email_with_attachment, mark_emails_as_read *)
(***************************************************************************)
MARK_AS_READ == TRUE

TokenStates == {"valid", "expired_refreshable", "unusable"}

\* a get_gmail_service that starts the authorization flow before it reads the
\* client secrets file
get_gmail_service_flow_first(token, creds_file, remote_ok) ==
    CASE token = "valid" ->
            [raised |-> FALSE, service |-> TRUE, calls |-> <<>>, cause |-> ""]
      [] token = "expired_refreshable" ->
            [raised |-> ~remote_ok, service |-> remote_ok, calls |-> <<"token_refresh">>,
             cause |-> IF remote_ok THEN "" ELSE "auth_transport"]
      [] OTHER ->
            [raised |-> ~(creds_file /\ remote_ok), service |-> creds_file /\ remote_ok,
             calls |-> <<"token_exchange">>,
             cause |-> IF ~creds_file THEN "credentials"
                       ELSE IF remote_ok THEN "" ELSE "auth_transport"]

\* token: what token.json holds; creds_file: whether CREDENTIALS_FILE exists;
\* remote_ok: whether the authorization server answers the request put to it.
\* Nothing in the function catches an exception.
get_gmail_service(token, creds_file, remote_ok) ==
    CASE token = "valid" ->
            [raised |-> FALSE, service |-> TRUE, calls |-> <<>>, cause |-> ""]
      [] token = "expired_refreshable" ->
            IF remote_ok
            THEN [raised |-> FALSE, service |-> TRUE, calls |-> <<"token_refresh">>, cause |-> ""]
            ELSE [raised |-> TRUE, service |-> FALSE, calls |-> <<"token_refresh">>,
                  cause |-> "auth_transport"]
      [] OTHER ->
            IF ~creds_file
            THEN [raised |-> TRUE, service |-> FALSE, calls |-> <<>>, cause |-> "credentials"]
            ELSE IF remote_ok
            THEN [raised |-> FALSE, service |-> TRUE, calls |-> <<"token_exchange">>, cause |-> ""]
            ELSE [raised |-> TRUE, service |-> FALSE, calls |-> <<"token_exchange">>,
                  cause |-> "auth_transport"]

\* A messages.list answer is a sequence of pages, each an HttpError or a list
\* of ids; every page but the last carries a nextPageToken.
ErrorPage == [ok |-> FALSE, ids |-> <<>>]
Page(ids) == [ok |-> TRUE, ids |-> ids]

FirstError(pages) ==
    IF \E i \in 1..Len(pages) : ~pages[i].ok
    THEN CHOOSE i \in 1..Len(pages) : ~pages[i].ok /\ \A j \in 1..(i - 1) : pages[j].ok
    ELSE 0

search_emails(pages) ==
    LET e == FirstError(pages)
    IN  IF e = 0
        THEN [messages |-> Flatten([i \in 1..Len(pages) |-> pages[i].ids]),
              calls |-> [i \in 1..Len(pages) |-> "search"]]
        ELSE [messages |-> <<>>, calls |-> [i \in 1..e |-> "search"]]

NoFile == [kind |-> "None"]

pdf_name(date_range) ==
    IF DictHas(date_range, "after") /\ DictHas(date_range, "before")
    THEN [kind |-> "dated"] ELSE [kind |-> "default"]

\* the story: one block per email, with the amounts found in its sanitized body
story_of(es) ==
    [i \in 1..Len(es) |->
        [id |-> es[i].id,
         amounts |-> findall_amounts(sanitize_text(es[i].full_body), 1)]]

create_pdf_from_emails(es, date_range, build_ok) ==
    [story |-> story_of(es),
     file |-> IF build_ok THEN pdf_name(date_range) ELSE NoFile]

\* the body of send_email_with_attachment: open(None) is a TypeError, caught by
\* `except Exception`; an HttpError of the send is caught too
send_email_with_attachment(file, remote_send_ok) ==
    IF file = NoFile THEN [sent |-> FALSE, calls |-> <<>>]
    ELSE [sent |-> remote_send_ok, calls |-> <<"send">>]

mark_emails_as_read(ids) ==
    IF ~MARK_AS_READ THEN [calls |-> <<>>, marked |-> <<>>]
    ELSE [calls |-> <<"modify">>, marked |-> ids]

(***************************************************************************)
(* main.py: main                                                           *)
(***************************************************************************)
SendParams == 3     \* parameters of send_email_with_attachment
SendArgs == 2       \* arguments main passes to it

\* the interpreter's exit status: main() is the last statement of the script
exit_status(kind) == IF kind = "crashed" THEN 1 ELSE 0

Ended(kind, stage) == [kind |-> kind, stage |-> stage, status |-> exit_status(kind)]
Running == [kind |-> "running", stage |-> "", status |-> -1]

\* the loop body of step 3 after get_email_content returned r
append_fetched_always(es, ids, r) ==
    [emails |-> IF r.kind = "ok" THEN Append(es, r) ELSE es,
     message_ids |-> Append(ids, r.id)]

append_fetched(es, ids, r) ==
    IF r.kind = "ok"
    THEN [emails |-> Append(es, r), message_ids |-> Append(ids, r.id)]
    ELSE [emails |-> es, message_ids |-> ids]

\* steps 5 to 7 with the marking not gated on the send
deliver_and_mark_ungated(file, ids, remote_send_ok) ==
    LET m == mark_emails_as_read(ids)
    IN  [raised |-> FALSE, stage |-> "done", sent |-> FALSE,
         calls |-> m.calls, marked |-> m.marked]

\* steps 5 to 7 sending whatever file name it was given
deliver_and_mark_any_file(file, ids, remote_send_ok) ==
    [raised |-> FALSE, stage |-> "done", sent |-> remote_send_ok,
     calls |-> <<"send">>, marked |-> <<>>]

\* main.py:113-125.  The call of line 114 raises TypeError when the argument
\* count differs from the parameter count, before the function body runs;
\* os.path.exists(None) of line 121 raises TypeError.
deliver_and_mark(file, ids, remote_send_ok) ==
    IF SendArgs # SendParams
    THEN [raised |-> TRUE, stage |-> "deliver", sent |-> FALSE,
          calls |-> <<>>, marked |-> <<>>]
    ELSE LET s == send_email_with_attachment(file, remote_send_ok)
             m == IF s.sent THEN mark_emails_as_read(ids)
                  ELSE [calls |-> <<>>, marked |-> <<>>]
         IN  [raised |-> file = NoFile,
              stage |-> IF file = NoFile THEN "cleanup" ELSE "done",
              sent |-> s.sent, calls |-> s.calls \o m.calls, marked |-> m.marked]

(***************************************************************************)
(* What the environment may answer in a run of main                        *)
(***************************************************************************)
CriteriaDated ==
    <<[key |-> "date_range",
       dr |-> <<[key |-> "after", val |-> "2024/01/01"],
                [key |-> "before", val |-> "2024/02/01"]>>,
       grp |-> NoGroup],
      [key |-> "include", dr |-> <<>>,
       grp |-> [has_terms |-> TRUE, terms |-> <<"invoice", "receipt">>,
                has_op |-> FALSE, op |-> ""]]>>

CriteriaExclude ==
    <<[key |-> "exclude", dr |-> <<>>,
       grp |-> [has_terms |-> TRUE, terms |-> <<"invoice">>, has_op |-> FALSE, op |-> ""]]>>

\* open(CRITERIA_FILE) and json.load: missing, not JSON, or a criteria value
CriteriaFiles ==
    {[state |-> "missing", value |-> <<>>], [state |-> "invalid", value |-> <<>>]}
        \cup {[state |-> "ok", value |-> c] : c \in {<<>>, CriteriaDated, CriteriaExclude}}

MessageIds(from, to) == [i \in 1..(to - from + 1) |-> "m" \o ToString(from + i - 1)]

\* answers of messages.list with at most n messages: one page, two pages, an
\* HttpError on the first page or on the second
SearchAnswers(n) ==
    {<<ErrorPage>>, <<Page(MessageIds(1, 1)), ErrorPage>>}
        \cup {<<Page(MessageIds(1, k))>> : k \in 0..n}
        \cup {<<Page(MessageIds(1, 1)), Page(MessageIds(2, k))>> : k \in 2..n}

HtmlMessage == Leaf("text/html", "data", "ok", <<"<p>", "$", "5", "&">>)
NestedMessage ==
    Multipart("multipart/mixed",
              <<Multipart("multipart/alternative",
                          <<Leaf("text/plain", "data", "ok", PlainText),
                            Leaf("text/html", "data", "ok", HtmlText)>>),
                Leaf("image/png", "nodata", "ok", <<>>)>>)
MalformedMessage == Leaf("text/html", "data", "bad_base64", <<>>)

FetchAnswers == {HttpError, Message(HtmlMessage), Message(NestedMessage), Message(MalformedMessage)}

fetch_kind(resp) ==
    IF resp.http_error THEN "http_error"
    ELSE IF full_body_of(resp.payload).raised THEN "malformed" ELSE "ok"

EnvUnset ==
    [token |-> "unset", creds_file |-> "unset", auth_remote |-> "unset",
     criteria_file |-> "unset", search |-> "unset", fetches |-> <<>>,
     build |-> "unset", send |-> "unset"]

OkFail(b) == IF b THEN "ok" ELSE "fail"

(***************************************************************************)
(* Initial states                                                          *)
(***************************************************************************)
IdlePipeline ==
    /\ calls = <<>>
    /\ messages = <<>>
    /\ idx = 1
    /\ emails = <<>>
    /\ message_ids = <<>>
    /\ pdf_filename = NoFile
    /\ sections = <<>>
    /\ sent_message = FALSE
    /\ marked = <<>>
    /\ outcome = Running
    /\ env = EnvUnset

IdleFunctions ==
    /\ payload = Leaf("", "nodata", "ok", <<>>)
    /\ body_result = [kind |-> "unset", id |-> "", full_body |-> <<>>]
    /\ text = <<>>
    /\ dollar_amounts = <<>>

Init ==
    /\ pc = "auth"
    /\ criteria = <<>>
    /\ search_query = ""
    /\ IdlePipeline
    /\ IdleFunctions

(***************************************************************************)
(* main.py: the steps of main                                              *)
(***************************************************************************)
\* main.py:67-73
Authenticate ==
    /\ pc = "auth"
    /\ \E token \in TokenStates, creds_file \in BOOLEAN, remote_ok \in BOOLEAN :
          LET r == get_gmail_service(token, creds_file, remote_ok)
          IN  /\ calls' = calls \o r.calls
              /\ env' = [env EXCEPT !.token = token, !.creds_file = OkFail(creds_file),
                                    !.auth_remote = OkFail(remote_ok)]
              /\ IF r.raised
                 THEN pc' = "exit" /\ outcome' = Ended("crashed", r.cause)
                 ELSE IF ~r.service
                 THEN pc' = "exit" /\ outcome' = Ended("returned", "auth")
                 ELSE pc' = "load" /\ outcome' = outcome
    /\ UNCHANGED <<criteria, search_query, messages, idx, emails, message_ids,
                   pdf_filename, sections, sent_message, marked,
                   payload, body_result, text, dollar_amounts>>

\* main.py:75-87
LoadCriteria ==
    /\ pc = "load"
    /\ \E file \in CriteriaFiles :
          /\ env' = [env EXCEPT !.criteria_file = file.state]
          /\ IF file.state = "ok"
             THEN /\ criteria' = file.value
                  /\ search_query' = build_search_query(file.value)
                  /\ pc' = "search"
                  /\ outcome' = outcome
             ELSE /\ pc' = "exit"
                  /\ outcome' = Ended("returned", "criteria")
                  /\ UNCHANGED <<criteria, search_query>>
    /\ UNCHANGED <<calls, messages, idx, emails, message_ids, pdf_filename, sections,
                   sent_message, marked, payload, body_result, text, dollar_amounts>>

\* main.py:88-92
Search ==
    /\ pc = "search"
    /\ \E pages \in SearchAnswers(MaxMessages) :
          LET r == search_emails(pages)
          IN  /\ calls' = calls \o r.calls
              /\ messages' = r.messages
              /\ env' = [env EXCEPT !.search = OkFail(FirstError(pages) = 0)]
              /\ IF r.messages = <<>>
                 THEN pc' = "exit" /\ outcome' = Ended("returned", "search")
                 ELSE pc' = "fetch" /\ outcome' = outcome
    /\ UNCHANGED <<criteria, search_query, idx, emails, message_ids, pdf_filename,
                   sections, sent_message, marked, payload, body_result, text,
                   dollar_amounts>>

\* main.py:97-103: one pass of the loop
FetchOne ==
    /\ pc = "fetch"
    /\ idx <= Len(messages)
    /\ \E resp \in FetchAnswers :
          LET r == get_email_content(resp, messages[idx])
              a == append_fetched(emails, message_ids, r)
          IN  /\ calls' = Append(calls, "fetch")
              /\ env' = [env EXCEPT !.fetches = Append(@, fetch_kind(resp))]
              /\ IF r.kind = "raise"
                 THEN /\ pc' = "exit"
                      /\ outcome' = Ended("crashed", "fetch")
                      /\ UNCHANGED <<emails, message_ids, idx>>
                 ELSE /\ emails' = a.emails
                      /\ message_ids' = a.message_ids
                      /\ idx' = idx + 1
                      /\ UNCHANGED <<pc, outcome>>
    /\ UNCHANGED <<criteria, search_query, messages, pdf_filename, sections,
                   sent_message, marked, payload, body_result, text, dollar_amounts>>

\* main.py:105-107
CheckFetched ==
    /\ pc = "fetch"
    /\ idx > Len(messages)
    /\ IF emails = <<>>
       THEN pc' = "exit" /\ outcome' = Ended("returned", "fetch")
       ELSE pc' = "render" /\ outcome' = outcome
    /\ UNCHANGED <<criteria, search_query, calls, messages, idx, emails, message_ids,
                   pdf_filename, sections, sent_message, marked, env,
                   payload, body_result, text, dollar_amounts>>

\* main.py:109-111
Render ==
    /\ pc = "render"
    /\ \E build_ok \in BOOLEAN :
          LET date_range == IF DictHas(criteria, "date_range")
                            THEN DictGet(criteria, "date_range").dr ELSE <<>>
              r == create_pdf_from_emails(emails, date_range, build_ok)
          IN  /\ pdf_filename' = r.file
              /\ sections' = r.story
              /\ env' = [env EXCEPT !.build = OkFail(build_ok)]
    /\ pc' = "deliver"
    /\ UNCHANGED <<criteria, search_query, calls, messages, idx, emails, message_ids,
                   sent_message, marked, outcome, payload, body_result, text,
                   dollar_amounts>>

\* main.py:113-125
DeliverMarkCleanup ==
    /\ pc = "deliver"
    /\ \E remote_send_ok \in BOOLEAN :
          LET r == deliver_and_mark(pdf_filename, message_ids, remote_send_ok)
          IN  /\ calls' = calls \o r.calls
              /\ sent_message' = r.sent
              /\ marked' = r.marked
              /\ env' = [env EXCEPT !.send = OkFail(remote_send_ok)]
              /\ outcome' = IF r.raised THEN Ended("crashed", r.stage)
                            ELSE Ended("finished", r.stage)
    /\ pc' = "exit"
    /\ UNCHANGED <<criteria, search_query, messages, idx, emails, message_ids,
                   pdf_filename, sections, payload, body_result, text, dollar_amounts>>

Next ==
    \/ Authenticate
    \/ LoadCriteria
    \/ Search
    \/ FetchOne
    \/ CheckFetched
    \/ Render
    \/ DeliverMarkCleanup

Spec == Init /\ [][Next]_vars

(***************************************************************************)
(* build_search_query over every criteria value with term lists of at most *)
(* MaxTerms terms, in every key order                                      *)
(***************************************************************************)
InitQuery ==
    /\ pc = "compile"
    /\ \E d \in DateEntries, i \in GroupEntries("include", MaxTerms),
          e \in GroupEntries("exclude", MaxTerms) :
          criteria \in Reorderings(d \o i \o e)
    /\ search_query = ""
    /\ IdlePipeline
    /\ IdleFunctions

Compile ==
    /\ pc = "compile"
    /\ search_query' = build_search_query(criteria)
    /\ pc' = "compiled"
    /\ UNCHANGED <<criteria, pipeline_vars, payload, body_result, text, dollar_amounts>>

SpecQuery == InitQuery /\ [][Compile]_vars

(***************************************************************************)
(* The body walk of get_email_content over every payload                   *)
(***************************************************************************)
InitBody ==
    /\ pc = "walk"
    /\ criteria = <<>>
    /\ search_query = ""
    /\ IdlePipeline
    /\ payload \in Payloads(MaxParts, MaxNested)
    /\ body_result = [kind |-> "unset", id |-> "", full_body |-> <<>>]
    /\ text = <<>>
    /\ dollar_amounts = <<>>

Walk ==
    /\ pc = "walk"
    /\ body_result' = get_email_content(Message(payload), "m1")
    /\ pc' = "walked"
    /\ UNCHANGED <<criteria, search_query, pipeline_vars, payload, text, dollar_amounts>>

SpecBody == InitBody /\ [][Walk]_vars

(***************************************************************************)
(* The amount scan over every text                                         *)
(***************************************************************************)
InitAmounts ==
    /\ pc = "scan"
    /\ criteria = <<>>
    /\ search_query = ""
    /\ IdlePipeline
    /\ payload = Leaf("", "nodata", "ok", <<>>)
    /\ body_result = [kind |-> "unset", id |-> "", full_body |-> <<>>]
    /\ text \in Texts(MaxPieces)
    /\ dollar_amounts = <<>>

Scan ==
    /\ pc = "scan"
    /\ dollar_amounts' = findall_amounts(text, 1)
    /\ pc' = "scanned"
    /\ UNCHANGED <<criteria, search_query, pipeline_vars, payload, body_result, text>>

SpecAmounts == InitAmounts /\ [][Scan]_vars

(***************************************************************************)
(* Helpers of the properties                                               *)
(***************************************************************************)
Range(s) == {s[i] : i \in 1..Len(s)}

Positions(s, x) == {i \in 1..Len(s) : s[i] = x}

\* the elements of s at the positions that satisfy Keep, in order
RECURSIVE Kept(_, _, _)
Kept(s, Keep(_), i) ==
    IF i > Len(s) THEN <<>>
    ELSE (IF Keep(i) THEN <<s[i]>> ELSE <<>>) \o Kept(s, Keep, i + 1)

IdsOf(es) == [i \in 1..Len(es) |-> es[i].id]

MarkIssued == marked # <<>> \/ "modify" \in Range(calls)

(***************************************************************************)
(* C1: the batchModify call is issued only after send_email_with_attachment*)
(* returned a send result in the same run; when the send failed or was     *)
(* never reached, nothing is marked as read.                               *)
(***************************************************************************)
C1_MarkOnlyAfterSend ==
    MarkIssued =>
        /\ sent_message
        /\ \E i \in Positions(calls, "send") :
              \A j \in Positions(calls, "modify") : i < j

\* a run that reached step 5 with a file and a remote ready to accept the
\* send, ended without a send result, and marked nothing
C1_Witness ==
    /\ pc = "exit"
    /\ outcome.stage = "deliver"
    /\ env.build = "ok"
    /\ env.send = "ok"
    /\ ~sent_message
    /\ ~MarkIssued

(***************************************************************************)
(* C2: when authentication, criteria loading, the search (at least one     *)
(* message), every fetch, the PDF build and the remote send all succeed,   *)
(* main delivers exactly once, then marks the fetched messages as read     *)
(* (MARK_AS_READ on), then finishes normally, with the calls in the order  *)
(* search, fetch, send, modify.                                            *)
(***************************************************************************)
AllSucceeded ==
    /\ env.criteria_file = "ok"
    /\ env.search = "ok"
    /\ messages # <<>>
    /\ Len(env.fetches) = Len(messages)
    /\ \A i \in 1..Len(env.fetches) : env.fetches[i] = "ok"
    /\ env.build = "ok"
    /\ env.send = "ok"

C2_SuccessfulRunDeliversAndMarks ==
    (pc = "exit" /\ AllSucceeded) =>
        /\ outcome.kind = "finished"
        /\ Cardinality(Positions(calls, "send")) = 1
        /\ sent_message
        /\ (MARK_AS_READ => marked = message_ids /\ Cardinality(Positions(calls, "modify")) = 1)
        /\ \A i \in Positions(calls, "search"), j \in Positions(calls, "fetch") : i < j
        /\ \A i \in Positions(calls, "fetch"), j \in Positions(calls, "send") : i < j
        /\ \A i \in Positions(calls, "send"), j \in Positions(calls, "modify") : i < j

(***************************************************************************)
(* C3: an HttpError while fetching one message excludes exactly that       *)
(* message and does not end the run.  During and after the fetch loop the  *)
(* batch is the messages fetched so far with the failed ones removed, in   *)
(* order; message_ids is the ids of the batch in the same order; once the  *)
(* loop is over the run goes on to rendering iff some fetch succeeded, and *)
(* the story has one section per message of the batch.                     *)
(***************************************************************************)
FetchedOk(i) == env.fetches[i] = "ok"

C3_FetchFailureSkipsOnlyThatMessage ==
    (pc \in {"fetch", "render", "deliver"} \/ (pc = "exit" /\ env.search = "ok" /\ messages # <<>>)) =>
        LET done == Len(env.fetches)
            raised == \E i \in 1..done : env.fetches[i] = "malformed"
            batch == Kept(SubSeq(messages, 1, done), FetchedOk, 1)
        IN  /\ done <= Len(messages)
            /\ IdsOf(emails) = batch
            /\ message_ids = batch
            /\ env.build # "unset" => IdsOf(sections) = batch
            /\ (pc = "exit" /\ outcome.kind = "returned") => batch = <<>>
            /\ ~raised =>
                  /\ idx = done + 1
                  /\ pc # "fetch" => done = Len(messages)
                  /\ (done = Len(messages) /\ batch # <<>>) =>
                        (pc \in {"fetch", "render"} \/ env.build # "unset")

\* three messages, the second fetch fails, the two others are rendered
C3_Witness ==
    /\ pc = "deliver"
    /\ env.fetches = <<"ok", "http_error", "ok">>
    /\ message_ids = <<"m1", "m3">>
    /\ IdsOf(sections) = <<"m1", "m3">>

(***************************************************************************)
(* C4: when the document build fails (create_pdf_from_emails returns None) *)
(* the run aborts: no send is issued and nothing is marked as read.        *)
(***************************************************************************)
C4_BuildFailureNeitherSendsNorMarks ==
    env.build = "fail" =>
        /\ "send" \notin Range(calls)
        /\ ~sent_message
        /\ ~MarkIssued
        /\ pc = "exit" => outcome.kind = "crashed"

C4_Witness ==
    /\ pc = "exit"
    /\ env.build = "fail"
    /\ pdf_filename = NoFile
    /\ outcome.kind = "crashed"
    /\ "send" \notin Range(calls)

(***************************************************************************)
(* C5: a configuration error (criteria file missing or not JSON,           *)
(* credentials unavailable) is detected before any network call.           *)
(***************************************************************************)
ConfigurationError == pc = "exit" /\ outcome.stage \in {"credentials", "criteria"}

\* C5 as claimed: no remote call at all before the abort
C5_ConfigErrorBeforeAnyNetworkCall == ConfigurationError => calls = <<>>

\* C5 as amended: missing credentials abort before any remote call; a criteria
\* file error aborts before any mailbox call (search, fetch, send, modify),
\* after authentication, which may have gone to the authorization server
C5_ConfigErrorBeforeAnyMailboxCall ==
    /\ (pc = "exit" /\ outcome.stage = "credentials") => calls = <<>>
    /\ (pc = "exit" /\ outcome.stage = "criteria") =>
          /\ Range(calls) \subseteq {"token_refresh", "token_exchange"}
          /\ Len(calls) <= 1
          /\ (env.token = "valid" <=> calls = <<>>)

C5_Witness ==
    /\ pc = "exit"
    /\ outcome.stage = "criteria"
    /\ env.criteria_file = "missing"
    /\ calls = <<"token_refresh">>

(***************************************************************************)
(* C6: a decoding failure on one message's body (malformed base64,         *)
(* undecodable bytes, missing body field) is never fatal to the batch:     *)
(* get_email_content does not let it propagate and the run is not ended by *)
(* the fetch of that message.                                              *)
(***************************************************************************)
C6_DecodeFailureNeverFatal ==
    "malformed" \in Range(env.fetches) =>
        ~(pc = "exit" /\ outcome.kind = "crashed" /\ outcome.stage = "fetch")

(***************************************************************************)
(* C7: the exit status signals success exactly when the run ended with the *)
(* artifact delivered, and failure whenever the run aborted at any stage.  *)
(***************************************************************************)
C7_ExitStatusTellsDelivery ==
    pc = "exit" => (outcome.status = 0 <=> sent_message)

(***************************************************************************)
(* C8: build_search_query returns the single-space join, in the fixed      *)
(* order after, before, include, exclude, of the fragments of the sections *)
(* that emit one; the key order of the input does not matter.              *)
(***************************************************************************)
HasDateKey(c, k) == DictHas(c, "date_range") /\ DictHas(DictGet(c, "date_range").dr, k)
DateToken(c, k) == IF HasDateKey(c, k) THEN DictGet(DictGet(c, "date_range").dr, k).val ELSE ""
TermsOf(c, k) == IF DictHas(c, k) THEN DictGet(c, k).grp.terms ELSE <<>>
OperatorOf(c, k, default) ==
    IF DictHas(c, k) /\ DictGet(c, k).grp.has_op THEN DictGet(c, k).grp.op ELSE default
Parenthesized(c, k, default) ==
    "(" \o Join(TermsOf(c, k), " " \o OperatorOf(c, k, default) \o " ") \o ")"

\* the four fragments in the fixed order; emits.after and emits.before say
\* whether a date section emits its fragment
Fragments(c, emits) ==
    <<[on |-> emits.after, frag |-> "after:" \o DateToken(c, "after")],
      [on |-> emits.before, frag |-> "before:" \o DateToken(c, "before")],
      [on |-> TermsOf(c, "include") # <<>>, frag |-> Parenthesized(c, "include", "AND")],
      [on |-> TermsOf(c, "exclude") # <<>>, frag |-> "-" \o Parenthesized(c, "exclude", "OR")]>>

JoinedFragments(rows) ==
    LET IsOn(i) == rows[i].on
        on == Kept(rows, IsOn, 1)
    IN  Join([i \in 1..Len(on) |-> on[i].frag], " ")

\* the same criteria with the keys of the top level and of date_range in
\* every other order
KeyReorderings(c) ==
    UNION {IF DictHas(r, "date_range")
           THEN {[i \in 1..Len(r) |->
                    IF r[i].key = "date_range" THEN [r[i] EXCEPT !.dr = d] ELSE r[i]] :
                 d \in Reorderings(DictGet(r, "date_range").dr)}
           ELSE {r} : r \in Reorderings(c)}

\* C8 as claimed: a section emits its fragment when present and non-empty
C8_QueryJoinsNonEmptySections ==
    pc = "compiled" =>
        search_query =
            JoinedFragments(Fragments(criteria,
                [after |-> HasDateKey(criteria, "after") /\ DateToken(criteria, "after") # "",
                 before |-> HasDateKey(criteria, "before") /\ DateToken(criteria, "before") # ""]))

\* C8 as amended: a date fragment is emitted whenever its key is present in
\* date_range, whatever the token; include and exclude when the term list is
\* present and non-empty
C8_QueryJoinsPresentSections ==
    pc = "compiled" =>
        /\ search_query =
              JoinedFragments(Fragments(criteria,
                  [after |-> HasDateKey(criteria, "after"),
                   before |-> HasDateKey(criteria, "before")]))
        /\ \A c \in KeyReorderings(criteria) : build_search_query(c) = search_query
        /\ (\A k \in {"after", "before"} : ~HasDateKey(criteria, k))
              /\ TermsOf(criteria, "include") = <<>> /\ TermsOf(criteria, "exclude") = <<>>
           => search_query = ""
        /\ criteria = <<[key |-> "date_range",
                         dr |-> <<[key |-> "after", val |-> "2024/01/01"]>>, grp |-> NoGroup],
                        [key |-> "include", dr |-> <<>>,
                         grp |-> [has_terms |-> TRUE, terms |-> <<"invoice", "receipt">>,
                                  has_op |-> FALSE, op |-> ""]]>>
           => search_query = "after:2024/01/01 (invoice AND receipt)"

\* exclude written first, an empty `after` token, all four fragments emitted
C8_Witness ==
    /\ pc = "compiled"
    /\ Len(criteria) = 3
    /\ criteria[1].key = "exclude"
    /\ criteria[2].key = "date_range"
    /\ search_query = "after: before:2024/02/01 (invoice OR receipt) -(receipt)"

(***************************************************************************)
(* C9: the amounts extracted from a text are all the non-overlapping       *)
(* left-to-right matches of the amount pattern, duplicates kept, in order  *)
(* of appearance.                                                          *)
(***************************************************************************)
\* s is a word of the pattern: a `$` (optional when dollar_optional), d >= 1
\* digits, g groups of a comma and three digits, and f = 1 for a point and
\* two digits
IsAmountWord(s, dollar_optional) ==
    \E o \in (IF dollar_optional THEN {0, 1} ELSE {1}), g \in 0..(Len(s) \div 4), f \in {0, 1} :
        LET d == Len(s) - o - 4 * g - 3 * f
        IN  /\ d >= 1
            /\ o = 1 => s[1] = "$"
            /\ \A k \in (o + 1)..(o + d) : s[k] \in Digits
            /\ \A j \in 0..(g - 1) :
                  /\ s[o + d + 4 * j + 1] = ","
                  /\ \A k \in 2..4 : s[o + d + 4 * j + k] \in Digits
            /\ f = 1 => /\ s[Len(s) - 2] = "."
                        /\ s[Len(s) - 1] \in Digits
                        /\ s[Len(s)] \in Digits

WordEnds(t, i, dollar_optional) ==
    {j \in i..Len(t) : IsAmountWord(SubSeq(t, i, j), dollar_optional)}

Greatest(S) == CHOOSE x \in S : \A y \in S : y <= x

\* the matches from position i on: at the first position where a word of the
\* pattern starts, the longest one; then on from its end
RECURSIVE Matches(_, _, _)
Matches(t, i, dollar_optional) ==
    IF i > Len(t) THEN <<>>
    ELSE LET ends == WordEnds(t, i, dollar_optional)
         IN  IF ends = {} THEN Matches(t, i + 1, dollar_optional)
             ELSE <<SubSeq(t, i, Greatest(ends))>> \o Matches(t, Greatest(ends) + 1, dollar_optional)

\* C9 as claimed: the `$` is optional, so a bare 1234.56 is an amount
C9_AmountsWithOptionalDollar ==
    pc = "scanned" => dollar_amounts = Matches(text, 1, TRUE)

\* C9 as amended: the `$` is required; a number without it is not extracted
C9_AmountsWithRequiredDollar ==
    pc = "scanned" =>
        /\ dollar_amounts = Matches(text, 1, FALSE)
        /\ \A k \in 1..Len(dollar_amounts) : dollar_amounts[k][1] = "$"

\* "23.78$1": the bare 23.78 is skipped, the amount after it is found
C9_Witness ==
    /\ pc = "scanned"
    /\ text = <<"2", "3", ".", "7", "8", "$", "1">>
    /\ dollar_amounts = <<<<"$", "1">>>>

(***************************************************************************)
(* C10: the body walk is depth-first: every text/plain or text/html part   *)
(* with a payload, at any nesting depth, contributes its text in walk      *)
(* order; a part without a payload contributes nothing and raises nothing. *)
(***************************************************************************)
RECURSIVE DepthFirstText(_)
DepthFirstText(part) ==
    IF part.parts # <<>>
    THEN Flatten([i \in 1..Len(part.parts) |-> DepthFirstText(part.parts[i])])
    ELSE IF part.body # "data" THEN <<>>
    ELSE IF part.mimeType = "text/plain" THEN part.data
    ELSE IF part.mimeType = "text/html" THEN strip_html_tags(part.data)
    ELSE <<>>

\* every part carries a body field and a decodable payload, if any
RECURSIVE WellEncoded(_)
WellEncoded(part) ==
    /\ part.body # "absent"
    /\ part.enc = "ok"
    /\ \A i \in 1..Len(part.parts) : WellEncoded(part.parts[i])

C10_BodyIsDepthFirstWalk ==
    (pc = "walked" /\ WellEncoded(payload)) =>
        /\ body_result.kind = "ok"
        /\ body_result.full_body = DepthFirstText(payload)

====
